---------------------------- MODULE Spec2Model ----------------------------
(***************************************************************************)
(* The course platform back end (Flask + SQLAlchemy) as a state machine.   *)
(*                                                                         *)
(* The state is the committed content of the relational tables plus, for  *)
(* every request being served, the handler's position and its SQLAlchemy   *)
(* session (the writes it has made and not yet committed).  A handler is   *)
(* a sequence of steps: reads see the committed tables and the session's   *)
(* own writes; db.session.commit() applies the session to the tables in    *)
(* one step after the database has checked its constraints; an early       *)
(* return or db.session.rollback() drops the session.                      *)
(*                                                                         *)
(* Prices are integers (the code's floats are only added and multiplied by *)
(* integers).  NULL is the SQL NULL / Python None / absent JSON key.       *)
(***************************************************************************)
EXTENDS Integers, Sequences, FiniteSets, TLC

\* ------------------------------------------------------------------ bounds
MaxOrders == 1      \* orders created under Spec
MaxItems == 2       \* line items in one create_order request
MaxStock == 2       \* largest stock an admin request sets
MaxQty == 2         \* largest quantity a line item asks for
MaxStockOrders == 2 \* orders created under SpecStock
MaxRaceOrders == 2  \* orders created under SpecRace
MaxRetryOrders == 2 \* orders created under SpecRetry
MaxUsers == 4       \* user ids given out, the three first users included
MaxListOrders == 2  \* orders created under SpecList
MaxScopeOrders == 2 \* orders created under SpecScope
MaxLineOrders == 2  \* orders created under SpecLines
MaxOverrideOrders == 2 \* orders created under SpecOverride
MaxIntegrityOrders == 2 \* orders created under SpecIntegrity
MaxApplied == 2     \* pay_order calls that take effect on one order under SpecOverride

NULL == 0

\* The tables; req, the requests being served; tokens, the access tokens
\* issued and not yet expired; paylog, a history variable that records for
\* every order what its pay_order calls have done so far.
VARIABLES users, courses, products, orders, order_items, enrollments, req,
          tokens, paylog

tables == <<users, courses, products, orders, order_items, enrollments>>
vars == <<users, courses, products, orders, order_items, enrollments, req,
          tokens, paylog>>

\* ------------------------------------------------------------- identifiers
\* The admin is the user run.py creates at start-up, the first row of the
\* table; the students have registered since.
AdminId == 1
Students == {2, 3}
Buyers == {2}
Callers == Students \cup {AdminId}
CourseIds == {1}
ProductIds == {1}
Slots == {1, 2}

CoursePrices == {100}
ProductPrices == {30}

UserRoles == {"student", "admin"}
UserStatuses == {"active", "inactive", "banned"}
CourseStatuses == {"active", "inactive", "draft"}
ProductStatuses == {"active", "inactive", "out_of_stock"}
OrderStatuses == {"pending", "paid", "cancelled", "refunded"}
EnrollmentStatuses == {"active", "completed", "dropped"}

\* ----------------------------------------------------------------- helpers
Max(S) == CHOOSE x \in S : \A y \in S : y <= x

\* The next autoincrement id of a table whose used ids are S.
NextId(S) == IF S = {} THEN 1 ELSE Max(S) + 1

\* The ids of S in ascending order, as a sequence.
RECURSIVE SortedSeq(_)
SortedSeq(S) ==
  IF S = {} THEN <<>>
  ELSE LET m == CHOOSE x \in S : \A y \in S : x <= y
       IN <<m>> \o SortedSeq(S \ {m})

RECURSIVE SumPrices(_)
SumPrices(items) ==
  IF items = <<>> THEN 0 ELSE Head(items).price + SumPrices(Tail(items))

\* f with the rows of g written over it (g's keys win).
Upsert(f, g) == [k \in (DOMAIN f) \cup (DOMAIN g) |->
                   IF k \in DOMAIN g THEN g[k] ELSE f[k]]

\* f without the row k.
Remove(f, k) == [j \in (DOMAIN f) \ {k} |-> f[j]]

\* ----------------------------------------------------------------- strings
\* A string is a sequence of one-character strings.
LowerOf == ("A" :> "a") @@ ("B" :> "b") @@ ("C" :> "c") @@ ("D" :> "d")

\* str.lower()
Lower(str) ==
  [i \in DOMAIN str |-> IF str[i] \in DOMAIN LowerOf THEN LowerOf[str[i]] ELSE str[i]]

RECURSIVE LStrip(_)
LStrip(str) ==
  IF str # <<>> /\ Head(str) = " " THEN LStrip(Tail(str)) ELSE str

RECURSIVE RStrip(_)
RStrip(str) ==
  IF str # <<>> /\ str[Len(str)] = " "
  THEN RStrip(SubSeq(str, 1, Len(str) - 1)) ELSE str

\* str.strip()
Strip(str) == RStrip(LStrip(str))

\* c in str
Contains(str, c) == \E i \in DOMAIN str : str[i] = c

\* data['email'].lower().strip()
NormalizeEmail(raw) == Strip(Lower(raw))

\* Faulty variant of CheckPasswordHash: any password is taken.
CheckPasswordHashAny(hash, password) == TRUE

\* werkzeug's salted hash of a password, and its check.
PasswordHash(password) == [hash_of |-> password]
CheckPasswordHash(hash, password) == hash = PasswordHash(password)

\* ------------------------------------------------------------------- rows
NewOrder(u, pm) ==
  [user_id |-> u, total_amount |-> 0, status |-> "pending",
   payment_method |-> pm, payment_status |-> "pending"]

NewEnrollment(u, c) ==
  [user_id |-> u, course_id |-> c, progress |-> 0, status |-> "active"]

CourseItem(oid, cid, price) ==
  [order_id |-> oid, course_id |-> cid, product_id |-> NULL,
   quantity |-> 1, price |-> price, item_type |-> "course"]

\* Faulty variant of ProductItem: the quantity is stored as 1.
ProductItemSingle(oid, pid, qty, price) ==
  [order_id |-> oid, course_id |-> NULL, product_id |-> pid,
   quantity |-> 1, price |-> price, item_type |-> "product"]

ProductItem(oid, pid, qty, price) ==
  [order_id |-> oid, course_id |-> NULL, product_id |-> pid,
   quantity |-> qty, price |-> price, item_type |-> "product"]

\* ---------------------------------------------------------------- session
EmptySession ==
  [users |-> <<>>, orders |-> <<>>, items |-> <<>>, enrollments |-> <<>>,
   products |-> <<>>]

\* A request slot: the handler's position pc ("idle" when no request is being
\* served, "returned" once the response is out and the application context
\* is not yet torn down), the operation and its caller, the id the request is
\* about (for create_order, the id its Order was flushed with), the response
\* code and, where a claim is about it, the response body, the handler's
\* locals and its session.
IdleReq ==
  [pc |-> "idle", op |-> "", user |-> NULL, id |-> NULL, code |-> 0,
   body |-> <<>>, idx |-> 0, total |-> 0, loaded |-> <<>>, sess |-> EmptySession]

\* A handler that returns without having written to its session.
Reply(s, op, u, code, id) ==
  /\ req' = [req EXCEPT ![s] = [IdleReq EXCEPT !.pc = "returned", !.op = op,
                                               !.user = u, !.id = id,
                                               !.code = code]]
  /\ UNCHANGED tables

\* A return statement reached while the session holds uncommitted writes:
\* the handler neither commits nor rolls back.
Return(s, code) ==
  /\ req' = [req EXCEPT ![s].pc = "returned", ![s].code = code]
  /\ UNCHANGED tables

\* The except branch: db.session.rollback(), then the 500 response.
Rollback(s, code) ==
  /\ req' = [req EXCEPT ![s].pc = "returned", ![s].code = code,
                        ![s].sess = EmptySession]
  /\ UNCHANGED tables

\* The end of the request: the application context is popped and the scoped
\* session removed, which discards whatever it still holds uncommitted.
Teardown(s) ==
  /\ req[s].pc = "returned"
  /\ UNCHANGED <<tokens, paylog>>
  /\ req' = [req EXCEPT ![s] = IdleReq]
  /\ UNCHANGED tables

\* Faulty variant of UniqueUserCourse: the table is created without the constraint.
UniqueUserCourseDropped(rows) == TRUE

\* The unique_user_course constraint over a sequence of enrollment rows.
UniqueUserCourse(rows) ==
  \A i, j \in DOMAIN rows :
    (rows[i].user_id = rows[j].user_id /\ rows[i].course_id = rows[j].course_id)
      => i = j

\* Faulty variant of UniqueEmail: the column is created without unique=True.
UniqueEmailDropped(rows) == TRUE

\* unique=True on User.email, over a sequence of user rows.
UniqueEmail(rows) ==
  \A i, j \in DOMAIN rows : rows[i].email = rows[j].email => i = j

\* nullable=False on Enrollment.user_id and Enrollment.course_id.
EnrollmentNotNull(rows) ==
  \A i \in DOMAIN rows : rows[i].user_id # NULL /\ rows[i].course_id # NULL

\* The rows of a table as a sequence in id order.
Rows(t) == LET ids == SortedSeq(DOMAIN t) IN [i \in DOMAIN ids |-> t[ids[i]]]

\* What the database checks when the session's writes reach it: the inserted
\* enrollments against the committed ones, and that every updated row still
\* exists.
ConstraintsOK(sess) ==
  /\ UniqueEmail(Rows(users) \o sess.users)
  /\ EnrollmentNotNull(sess.enrollments)
  /\ UniqueUserCourse(Rows(enrollments) \o sess.enrollments)
  /\ \A p \in DOMAIN sess.products : p \in DOMAIN products

\* Rows appended to table t with fresh ids, in order.
Inserted(t, rows) ==
  LET base == NextId(DOMAIN t) - 1
  IN Upsert(t, [k \in {base + i : i \in DOMAIN rows} |-> rows[k - base]])

\* Faulty variant of Commit: the writes reach the database one statement at a time,
\* so those made before the refused one stay.
CommitStatementwise(s, sess, okcode) ==
  IF ConstraintsOK(sess)
  THEN /\ users' = Inserted(users, sess.users)
       /\ orders' = Upsert(orders, sess.orders)
       /\ order_items' = Inserted(order_items, sess.items)
       /\ enrollments' = Inserted(enrollments, sess.enrollments)
       /\ products' = Upsert(products, sess.products)
       /\ req' = [req EXCEPT ![s].pc = "returned", ![s].code = okcode,
                             ![s].sess = EmptySession]
       /\ UNCHANGED courses
  ELSE /\ orders' = Upsert(orders, sess.orders)
       /\ products' = Upsert(products, [p \in (DOMAIN sess.products) \cap
                                                (DOMAIN products) |-> sess.products[p]])
       /\ req' = [req EXCEPT ![s].pc = "returned", ![s].code = 500,
                             ![s].sess = EmptySession]
       /\ UNCHANGED <<users, courses, order_items, enrollments>>

\* db.session.commit() of the session sess of slot s: it becomes visible, or
\* the database refuses it and the handler's except branch rolls back.
Commit(s, sess, okcode) ==
  IF ConstraintsOK(sess)
  THEN /\ users' = Inserted(users, sess.users)
       /\ orders' = Upsert(orders, sess.orders)
       /\ order_items' = Inserted(order_items, sess.items)
       /\ enrollments' = Inserted(enrollments, sess.enrollments)
       /\ products' = Upsert(products, sess.products)
       /\ req' = [req EXCEPT ![s].pc = "returned", ![s].code = okcode,
                             ![s].sess = EmptySession]
       /\ UNCHANGED courses
  ELSE Rollback(s, 500)

\* ------------------------------------------------------------ create_order
\* Order ids in use: committed, or flushed by a request still running.
OrderIdsInUse ==
  (DOMAIN orders) \cup {req[s].id : s \in {t \in Slots : req[t].op = "create_order"}}

\* Faulty variant of ResolveItem: a dropped enrollment does not count as one.
ResolveItemUnlessDropped(u, oid, it) ==
  IF it.type = "" \/ it.id = NULL THEN [code |-> 400, item |-> NULL]
  ELSE IF it.type = "course" THEN
    IF it.id \notin DOMAIN courses THEN [code |-> 404, item |-> NULL]
    ELSE IF courses[it.id].status # "active" THEN [code |-> 400, item |-> NULL]
    ELSE IF \E e \in DOMAIN enrollments :
              /\ enrollments[e].user_id = u /\ enrollments[e].course_id = it.id
              /\ enrollments[e].status # "dropped"
         THEN [code |-> 400, item |-> NULL]
    ELSE [code |-> 0, item |-> CourseItem(oid, it.id, courses[it.id].price)]
  ELSE IF it.type = "product" THEN
    IF it.id \notin DOMAIN products THEN [code |-> 404, item |-> NULL]
    ELSE IF products[it.id].status # "active" THEN [code |-> 400, item |-> NULL]
    ELSE IF products[it.id].stock_quantity < it.quantity
         THEN [code |-> 400, item |-> NULL]
    ELSE [code |-> 0,
          item |-> ProductItem(oid, it.id, it.quantity,
                               products[it.id].price * it.quantity)]
  ELSE [code |-> 400, item |-> NULL]

\* One line of the request: code 0 and the OrderItem to add, or the error.
ResolveItem(u, oid, it) ==
  IF it.type = "" \/ it.id = NULL THEN [code |-> 400, item |-> NULL]
  ELSE IF it.type = "course" THEN
    IF it.id \notin DOMAIN courses THEN [code |-> 404, item |-> NULL]
    ELSE IF courses[it.id].status # "active" THEN [code |-> 400, item |-> NULL]
    ELSE IF \E e \in DOMAIN enrollments :
              enrollments[e].user_id = u /\ enrollments[e].course_id = it.id
         THEN [code |-> 400, item |-> NULL]
    ELSE [code |-> 0, item |-> CourseItem(oid, it.id, courses[it.id].price)]
  ELSE IF it.type = "product" THEN
    IF it.id \notin DOMAIN products THEN [code |-> 404, item |-> NULL]
    ELSE IF products[it.id].status # "active" THEN [code |-> 400, item |-> NULL]
    ELSE IF products[it.id].stock_quantity < it.quantity
         THEN [code |-> 400, item |-> NULL]
    ELSE [code |-> 0,
          item |-> ProductItem(oid, it.id, it.quantity,
                               products[it.id].price * it.quantity)]
  ELSE [code |-> 400, item |-> NULL]

\* Faulty variant of CreateOrderFail: the handler commits what its session holds
\* before it returns the error.
CreateOrderFailCommits(s, code) ==
  /\ orders' = Upsert(orders, req[s].sess.orders)
  /\ order_items' = Inserted(order_items, req[s].sess.items)
  /\ req' = [req EXCEPT ![s].pc = "returned", ![s].code = code,
                        ![s].sess = EmptySession]
  /\ UNCHANGED <<users, courses, products, enrollments>>

\* A validation failure in the item loop: the handler returns.
CreateOrderFail(s, code) == Return(s, code)

\* Faulty variant of OrderTotal: the placeholder total is never replaced.
OrderTotalPlaceholder(order, total) == order

\* order.total_amount = total_amount
OrderTotal(order, total) == [order EXCEPT !.total_amount = total]

\* The request's items list is drawn line by line: empty says the list is
\* empty, and each iteration of the loop draws the next line it.
CreateOrderBegin(s, u, empty, pm) ==
  /\ req[s].pc = "idle"
  /\ UNCHANGED <<tokens, paylog>>
  /\ IF empty
     THEN Reply(s, "create_order", u, 400, NULL)
     ELSE LET oid == NextId(OrderIdsInUse) IN
          /\ req' = [req EXCEPT ![s] =
                       [IdleReq EXCEPT !.pc = "co_items", !.op = "create_order",
                                       !.user = u, !.id = oid,
                                       !.sess.orders = oid :> NewOrder(u, pm)]]
          /\ UNCHANGED tables

CreateOrderItem(s, it) ==
  /\ req[s].pc = "co_items"
  /\ UNCHANGED <<tokens, paylog>>
  /\ Len(req[s].sess.items) < MaxItems
  /\ LET r == ResolveItem(req[s].user, req[s].id, it) IN
     IF r.code # 0
     THEN CreateOrderFail(s, r.code)
     ELSE /\ req' = [req EXCEPT ![s].sess.items = Append(@, r.item),
                                ![s].total = @ + r.item.price]
          /\ UNCHANGED tables

\* The list is exhausted (it held at least one line).
CreateOrderCommit(s) ==
  /\ req[s].pc = "co_items"
  /\ UNCHANGED <<tokens, paylog>>
  /\ Len(req[s].sess.items) >= 1
  /\ LET oid == req[s].id IN
     Commit(s, [req[s].sess EXCEPT !.orders[oid] = OrderTotal(@, req[s].total)], 201)

\* --------------------------------------------------------------- pay_order
\* Faulty variant of Payable: only a cancelled order is refused.
PayableUnlessCancelled(order) == order.status # "cancelled"

\* Faulty variant of Payable: only an order already paid is refused.
PayableUnlessPaid(order) == order.status # "paid"

\* if order.status != 'pending': return 400
Payable(order) == order.status = "pending"

\* Product.query.get(pid) finds a row: the session's own pending update, or
\* the committed row.
ProductFound(sess, pid) == pid \in DOMAIN sess.products \/ pid \in DOMAIN products

SeenProduct(sess, pid) ==
  IF pid \in DOMAIN sess.products THEN sess.products[pid] ELSE products[pid]

\* product.stock_quantity -= item.quantity, and the status that follows.
Decrement(product, qty) ==
  LET left == product.stock_quantity - qty IN
  [product EXCEPT !.stock_quantity = left,
                  !.status = IF left <= 0 THEN "out_of_stock" ELSE @]

\* Faulty variant of PayItem: course lines are skipped.
PayItemProductsOnly(sess, u, item) ==
  IF item.item_type = "product" /\ ProductFound(sess, item.product_id)
  THEN [sess EXCEPT !.products =
          Upsert(@, item.product_id :>
                      Decrement(SeenProduct(sess, item.product_id), item.quantity))]
  ELSE sess

\* The session after one loaded OrderItem has been processed.
PayItem(sess, u, item) ==
  IF item.item_type = "course"
  THEN [sess EXCEPT !.enrollments = Append(@, NewEnrollment(u, item.course_id))]
  ELSE IF item.item_type = "product" /\ ProductFound(sess, item.product_id)
  THEN [sess EXCEPT !.products =
          Upsert(@, item.product_id :>
                      Decrement(SeenProduct(sess, item.product_id), item.quantity))]
  ELSE sess

\* order.order_items, loaded in id order.
ItemsOf(oid) ==
  Rows([i \in {j \in DOMAIN order_items : order_items[j].order_id = oid} |->
          order_items[i]])

\* The history of an order's pay_order calls: failed, whether a call has
\* answered an error while the order was pending; applied, how many calls
\* have changed the products or the enrollments table.
PayLog(o) ==
  IF o \in DOMAIN paylog THEN paylog[o] ELSE [failed |-> FALSE, applied |-> 0]

PayLogged(o, code, effects) ==
  LET pending == o \in DOMAIN orders /\ orders[o].status = "pending"
      entry == [failed |-> PayLog(o).failed \/ (code # 200 /\ pending),
                applied |-> PayLog(o).applied + (IF effects THEN 1 ELSE 0)]
  IN IF entry = PayLog(o) THEN paylog ELSE Upsert(paylog, o :> entry)

\* pm is the request's payment_method: "absent" (the order's own is used),
\* "" (a falsy value) or a method.
PayOrderBegin(s, u, oid, pm) ==
  /\ req[s].pc = "idle"
  /\ UNCHANGED tokens
  /\ IF ~(oid \in DOMAIN orders /\ orders[oid].user_id = u)
     THEN Reply(s, "pay_order", u, 404, oid)
     ELSE IF ~Payable(orders[oid])
     THEN Reply(s, "pay_order", u, 400, oid)
     ELSE LET method == IF pm = "absent" THEN orders[oid].payment_method ELSE pm IN
          IF method = ""
          THEN Reply(s, "pay_order", u, 400, oid)
          ELSE /\ req' = [req EXCEPT ![s] =
                            [IdleReq EXCEPT
                               !.pc = "po_items", !.op = "pay_order", !.user = u,
                               !.id = oid, !.idx = 1, !.loaded = ItemsOf(oid),
                               !.sess.orders =
                                  oid :> [orders[oid] EXCEPT
                                            !.status = "paid",
                                            !.payment_status = "completed",
                                            !.payment_method = method]]]
               /\ UNCHANGED tables
  /\ paylog' = IF req'[s].pc = "returned" /\ req'[s].code # 404
               THEN PayLogged(oid, req'[s].code, FALSE)
               ELSE paylog

PayOrderItem(s) ==
  /\ req[s].pc = "po_items"
  /\ UNCHANGED <<tokens, paylog>>
  /\ req[s].idx <= Len(req[s].loaded)
  /\ req' = [req EXCEPT
               ![s].sess = PayItem(@, req[s].user, req[s].loaded[req[s].idx]),
               ![s].idx = @ + 1]
  /\ UNCHANGED tables

PayOrderCommit(s) ==
  /\ req[s].pc = "po_items"
  /\ UNCHANGED tokens
  /\ req[s].idx > Len(req[s].loaded)
  /\ Commit(s, req[s].sess, 200)
  /\ paylog' = PayLogged(req[s].id, req'[s].code,
                         <<products', enrollments'>> # <<products, enrollments>>)

\* db.session.commit() raises for a reason that is not in the data (the
\* database is locked or unreachable): the except branch rolls back.
PayOrderCommitFails(s) ==
  /\ req[s].pc = "po_items"
  /\ UNCHANGED tokens
  /\ req[s].idx > Len(req[s].loaded)
  /\ Rollback(s, 500)
  /\ paylog' = PayLogged(req[s].id, 500, FALSE)

\* ------------------------------------------------------------ cancel_order
\* Faulty variant of CancelOrder: the order's status is not looked at.
CancelOrderAnyStatus(s, u, oid) ==
  /\ req[s].pc = "idle"
  /\ UNCHANGED <<tokens, paylog>>
  /\ IF ~(oid \in DOMAIN orders /\ orders[oid].user_id = u)
     THEN Reply(s, "cancel_order", u, 404, oid)
     ELSE /\ orders' = [orders EXCEPT ![oid].status = "cancelled"]
          /\ req' = [req EXCEPT ![s] = [IdleReq EXCEPT !.pc = "returned", !.op = "cancel_order",
                                                       !.user = u, !.id = oid,
                                                       !.code = 200]]
          /\ UNCHANGED <<users, courses, products, order_items, enrollments>>

CancelOrder(s, u, oid) ==
  /\ req[s].pc = "idle"
  /\ UNCHANGED <<tokens, paylog>>
  /\ IF ~(oid \in DOMAIN orders /\ orders[oid].user_id = u)
     THEN Reply(s, "cancel_order", u, 404, oid)
     ELSE IF orders[oid].status # "pending"
     THEN Reply(s, "cancel_order", u, 400, oid)
     ELSE /\ orders' = [orders EXCEPT ![oid].status = "cancelled"]
          /\ req' = [req EXCEPT ![s] = [IdleReq EXCEPT !.pc = "returned", !.op = "cancel_order",
                                                       !.user = u, !.id = oid,
                                                       !.code = 200]]
          /\ UNCHANGED <<users, courses, products, order_items, enrollments>>

\* ----------------------------------------------------------- enroll_course
EnrollBegin(s, u, cid) ==
  /\ req[s].pc = "idle"
  /\ UNCHANGED <<tokens, paylog>>
  /\ IF cid \notin DOMAIN courses
     THEN Reply(s, "enroll_course", u, 404, cid)
     ELSE IF courses[cid].status # "active"
     THEN Reply(s, "enroll_course", u, 400, cid)
     ELSE IF \E e \in DOMAIN enrollments :
               enrollments[e].user_id = u /\ enrollments[e].course_id = cid
     THEN Reply(s, "enroll_course", u, 400, cid)
     ELSE /\ req' = [req EXCEPT ![s] =
                       [IdleReq EXCEPT
                          !.pc = "en_commit", !.op = "enroll_course", !.user = u,
                          !.sess.enrollments = <<NewEnrollment(u, cid)>>]]
          /\ UNCHANGED tables

\* The response holds enrollment.to_dict(), which reads self.user: when the
\* caller's row is gone it raises after the commit, and the except branch
\* answers 500 with the enrollment already stored.
EnrollCommit(s) ==
  /\ req[s].pc = "en_commit"
  /\ UNCHANGED <<tokens, paylog>>
  /\ Commit(s, req[s].sess, IF req[s].user \in DOMAIN users THEN 201 ELSE 500)

\* ------------------------------------------------------- enrollment routes
\* Faulty variant of OwnEnrollment: the query filters on the id alone.
OwnEnrollmentAnyUser(u, eid) == eid \in DOMAIN enrollments

\* The caller's enrollment with this id, if any.
OwnEnrollment(u, eid) == eid \in DOMAIN enrollments /\ enrollments[eid].user_id = u

EnrollmentWrite(s, op, u, eid, row) ==
  /\ enrollments' = [enrollments EXCEPT ![eid] = row]
  /\ req' = [req EXCEPT ![s] = [IdleReq EXCEPT !.pc = "returned", !.op = op,
                                                       !.user = u, !.id = eid,
                                                       !.code = 200]]
          /\ UNCHANGED <<users, courses, products, orders, order_items>>

\* The row after update_progress has accepted the number progress.
ProgressRow(row, progress) ==
  LET r == [row EXCEPT !.progress = progress] IN
  IF progress = 100 /\ row.status # "completed" THEN [r EXCEPT !.status = "completed"]
  ELSE IF progress < 100 /\ row.status = "completed" THEN [r EXCEPT !.status = "active"]
  ELSE r

\* isNumber is whether the request's progress is an int or a float.
UpdateProgress(s, u, eid, isNumber, progress) ==
  /\ req[s].pc = "idle"
  /\ UNCHANGED <<tokens, paylog>>
  /\ IF ~OwnEnrollment(u, eid)
     THEN Reply(s, "update_progress", u, 404, eid)
     ELSE IF ~isNumber \/ ~(0 <= progress /\ progress <= 100)
     THEN Reply(s, "update_progress", u, 400, eid)
     ELSE EnrollmentWrite(s, "update_progress", u, eid,
                          ProgressRow(enrollments[eid], progress))

CompleteCourse(s, u, eid) ==
  /\ req[s].pc = "idle"
  /\ UNCHANGED <<tokens, paylog>>
  /\ IF ~OwnEnrollment(u, eid)
     THEN Reply(s, "complete_course", u, 404, eid)
     ELSE IF enrollments[eid].status = "completed"
     THEN Reply(s, "complete_course", u, 400, eid)
     ELSE EnrollmentWrite(s, "complete_course", u, eid,
                          [enrollments[eid] EXCEPT !.status = "completed",
                                                   !.progress = 100])

DropCourse(s, u, eid) ==
  /\ req[s].pc = "idle"
  /\ UNCHANGED <<tokens, paylog>>
  /\ IF ~OwnEnrollment(u, eid)
     THEN Reply(s, "drop_course", u, 404, eid)
     ELSE IF enrollments[eid].status = "dropped"
     THEN Reply(s, "drop_course", u, 400, eid)
     ELSE EnrollmentWrite(s, "drop_course", u, eid,
                          [enrollments[eid] EXCEPT !.status = "dropped"])

\* Faulty variant of ReactivateEnrollment: the enrollment's status is not
\* looked at.
ReactivateEnrollmentAnyStatus(s, u, eid) ==
  /\ req[s].pc = "idle"
  /\ UNCHANGED <<tokens, paylog>>
  /\ IF ~OwnEnrollment(u, eid)
     THEN Reply(s, "reactivate_enrollment", u, 404, eid)
     ELSE EnrollmentWrite(s, "reactivate_enrollment", u, eid,
                          [enrollments[eid] EXCEPT !.status = "active"])

ReactivateEnrollment(s, u, eid) ==
  /\ req[s].pc = "idle"
  /\ UNCHANGED <<tokens, paylog>>
  /\ IF ~OwnEnrollment(u, eid)
     THEN Reply(s, "reactivate_enrollment", u, 404, eid)
     ELSE IF enrollments[eid].status # "dropped"
     THEN Reply(s, "reactivate_enrollment", u, 400, eid)
     ELSE EnrollmentWrite(s, "reactivate_enrollment", u, eid,
                          [enrollments[eid] EXCEPT !.status = "active"])

\* ------------------------------------------------------------- auth routes
MinPasswordLen == 6

\* create_access_token(identity=user.id): the token carries the user id (and
\* its expiry); nothing else about the user.
Token(u) == [sub |-> u]

\* JWT_ACCESS_TOKEN_EXPIRES has passed for the token t.
TokenExpires(t) ==
  /\ t \in tokens
  /\ tokens' = tokens \ {t}
  /\ UNCHANGED <<tables, req, paylog>>

\* Faulty variant of JwtRequired: the token of a user who is not active is
\* refused.
JwtRequiredActive(t) ==
  t \in tokens /\ t.sub \in DOMAIN users /\ users[t.sub].status = "active"

\* @jwt_required(): the token was issued by this application and has not
\* expired.
JwtRequired(t) == t \in tokens

\* A handler behind @jwt_required(), called with the token t.
WithJwt(s, op, t, Handler) ==
  IF JwtRequired(t) THEN Handler
  ELSE /\ req[s].pc = "idle"
       /\ Reply(s, op, t.sub, 401, NULL)
       /\ UNCHANGED <<tokens, paylog>>

\* A handler that has read the JSON data and returns a body without having
\* written to its session.
ReplyBody(s, op, data, u, code, body) ==
  /\ req' = [req EXCEPT ![s] = [IdleReq EXCEPT !.pc = "returned", !.op = op,
                                               !.loaded = data, !.user = u,
                                               !.code = code, !.body = body]]
  /\ UNCHANGED tables

\* User.query.filter_by(email=email)
UserByEmail(email) == {u \in DOMAIN users : users[u].email = email}

NewUser(email, password, role) ==
  [email |-> email, password |-> PasswordHash(password), role |-> role,
   status |-> "active"]

\* register's checks in their order: the error, or code 0 when all pass.
\* raw and password are <<>> when missing or empty; hasName is whether
\* full_name is there.
RegisterCheck(raw, password, hasName) ==
  IF raw = <<>> THEN [code |-> 400, error |-> "email is required"]
  ELSE IF password = <<>> THEN [code |-> 400, error |-> "password is required"]
  ELSE IF ~hasName THEN [code |-> 400, error |-> "full_name is required"]
  ELSE LET email == NormalizeEmail(raw) IN
       IF ~Contains(email, "@") \/ ~Contains(email, ".")
       THEN [code |-> 400, error |-> "Invalid email format"]
       ELSE IF UserByEmail(email) # {}
       THEN [code |-> 400, error |-> "Email already registered"]
       ELSE IF Len(password) < MinPasswordLen
       THEN [code |-> 400, error |-> "Password must be at least 6 characters long"]
       ELSE [code |-> 0, error |-> ""]

\* role is the request's role, "absent" when the key is missing.
RegisterBegin(s, raw, password, hasName, role) ==
  /\ req[s].pc = "idle"
  /\ UNCHANGED <<tokens, paylog>>
  /\ LET c == RegisterCheck(raw, password, hasName)
         data == [email |-> raw, password |-> password, has_name |-> hasName,
                  role |-> role]
     IN
     IF c.code # 0
     THEN ReplyBody(s, "register", data, NULL, c.code, [error |-> c.error])
     ELSE /\ req' = [req EXCEPT ![s] =
                       [IdleReq EXCEPT
                          !.pc = "rg_commit", !.op = "register", !.loaded = data,
                          !.sess.users =
                             <<NewUser(NormalizeEmail(raw), password,
                                       IF role = "absent" THEN "student" ELSE role)>>]]
          /\ UNCHANGED tables

\* db.session.commit(), then the token of the new user.
RegisterCommit(s) ==
  /\ req[s].pc = "rg_commit"
  /\ UNCHANGED paylog
  /\ Commit(s, req[s].sess, 201)
  /\ tokens' = IF req'[s].code = 201
               THEN tokens \cup {Token(NextId(DOMAIN users))}
               ELSE tokens

\* login's response: the code, the error and the user the token is for.
LoginResponse(raw, password) ==
  IF raw = <<>> \/ password = <<>>
  THEN [code |-> 400, error |-> "Email and password are required", user |-> NULL]
  ELSE LET found == UserByEmail(NormalizeEmail(raw)) IN
       IF found = {}
       THEN [code |-> 401, error |-> "Invalid email or password", user |-> NULL]
       ELSE LET u == CHOOSE x \in found : TRUE IN
            IF ~CheckPasswordHash(users[u].password, password)
            THEN [code |-> 401, error |-> "Invalid email or password", user |-> NULL]
            ELSE IF users[u].status # "active"
            THEN [code |-> 401, error |-> "Account is not active", user |-> NULL]
            ELSE [code |-> 200, error |-> "", user |-> u]

Login(s, raw, password) ==
  /\ req[s].pc = "idle"
  /\ UNCHANGED paylog
  /\ LET r == LoginResponse(raw, password)
         issued == IF r.code = 200 THEN {Token(r.user)} ELSE {}
     IN /\ ReplyBody(s, "login", [email |-> raw, password |-> password],
                     r.user, r.code, [error |-> r.error, access_token |-> issued])
        /\ tokens' = tokens \cup issued

\* current and new are <<>> when missing or empty.
ChangePassword(s, u, current, new) ==
  /\ req[s].pc = "idle"
  /\ UNCHANGED <<tokens, paylog>>
  /\ IF u \notin DOMAIN users THEN Reply(s, "change_password", u, 404, NULL)
     ELSE IF current = <<>> \/ new = <<>>
     THEN Reply(s, "change_password", u, 400, NULL)
     ELSE IF ~CheckPasswordHash(users[u].password, current)
     THEN Reply(s, "change_password", u, 400, NULL)
     ELSE IF Len(new) < MinPasswordLen
     THEN Reply(s, "change_password", u, 400, NULL)
     ELSE /\ users' = [users EXCEPT ![u].password = PasswordHash(new)]
          /\ req' = [req EXCEPT ![s] = [IdleReq EXCEPT !.pc = "returned", !.op = "change_password",
                                                       !.user = u, !.code = 200]]
          /\ UNCHANGED <<courses, products, orders, order_items, enrollments>>

\* ------------------------------------------------------------- user routes
\* db.session.delete(user): the user's enrollments and orders go with it
\* (cascade='all, delete-orphan'), and the orders' items with the orders.
DeleteUserRows(target) ==
  LET kept == {o \in DOMAIN orders : orders[o].user_id # target} IN
  /\ users' = Remove(users, target)
  /\ enrollments' = [e \in {x \in DOMAIN enrollments :
                              enrollments[x].user_id # target} |-> enrollments[e]]
  /\ orders' = [o \in kept |-> orders[o]]
  /\ order_items' = [i \in {x \in DOMAIN order_items :
                              order_items[x].order_id \in kept} |-> order_items[i]]
  /\ UNCHANGED <<courses, products>>

\* Faulty variant of DeleteCurrentUser: the role is not looked at.
DeleteCurrentUserAnyRole(s, u) ==
  /\ req[s].pc = "idle"
  /\ UNCHANGED <<tokens, paylog>>
  /\ IF u \notin DOMAIN users THEN Reply(s, "delete_current_user", u, 404, u)
     ELSE /\ DeleteUserRows(u)
          /\ req' = [req EXCEPT ![s] = [IdleReq EXCEPT !.pc = "returned", !.op = "delete_current_user",
                                                       !.user = u, !.id = u,
                                                       !.code = 200]]

DeleteCurrentUser(s, u) ==
  /\ req[s].pc = "idle"
  /\ UNCHANGED <<tokens, paylog>>
  /\ IF u \notin DOMAIN users THEN Reply(s, "delete_current_user", u, 404, u)
     ELSE IF users[u].role = "admin" THEN Reply(s, "delete_current_user", u, 400, u)
     ELSE /\ DeleteUserRows(u)
          /\ req' = [req EXCEPT ![s] = [IdleReq EXCEPT !.pc = "returned", !.op = "delete_current_user",
                                                       !.user = u, !.id = u,
                                                       !.code = 200]]

\* ------------------------------------------------------------ admin routes
\* Faulty variant of IsAdmin: only the caller's row is looked for.
IsAdminIfExists(u) == u \in DOMAIN users

\* admin_required: the caller's row exists and has role admin.
IsAdmin(u) == u \in DOMAIN users /\ users[u].role = "admin"

\* price = 0 stands for a missing or falsy price.
CreateCourse(s, u, price, status) ==
  /\ req[s].pc = "idle"
  /\ UNCHANGED <<tokens, paylog>>
  /\ IF ~IsAdmin(u) THEN Reply(s, "create_course", u, 403, NULL)
     ELSE IF price = 0 THEN Reply(s, "create_course", u, 400, NULL)
     ELSE LET cid == NextId(DOMAIN courses) IN
          /\ cid \in CourseIds
          /\ courses' = Upsert(courses, cid :> [price |-> price, status |-> status])
          /\ req' = [req EXCEPT ![s] = [IdleReq EXCEPT !.pc = "returned", !.op = "create_course",
                                                       !.user = u, !.id = cid,
                                                       !.code = 201]]
          /\ UNCHANGED <<users, products, orders, order_items, enrollments>>

UpdateCourse(s, u, cid, hasPrice, price, hasStatus, status) ==
  /\ req[s].pc = "idle"
  /\ UNCHANGED <<tokens, paylog>>
  /\ IF ~IsAdmin(u) THEN Reply(s, "update_course", u, 403, cid)
     ELSE IF cid \notin DOMAIN courses THEN Reply(s, "update_course", u, 404, cid)
     ELSE /\ courses' = [courses EXCEPT
                           ![cid].price = IF hasPrice THEN price ELSE @,
                           ![cid].status = IF hasStatus THEN status ELSE @]
          /\ req' = [req EXCEPT ![s] = [IdleReq EXCEPT !.pc = "returned", !.op = "update_course",
                                                       !.user = u, !.id = cid,
                                                       !.code = 200]]
          /\ UNCHANGED <<users, products, orders, order_items, enrollments>>

\* Deleting a parent row whose relationship to OrderItem has no delete
\* cascade sets the children's foreign key to NULL.
NullifyCourse(items, cid) ==
  [i \in DOMAIN items |->
     IF items[i].course_id = cid THEN [items[i] EXCEPT !.course_id = NULL]
     ELSE items[i]]

NullifyProduct(items, pid) ==
  [i \in DOMAIN items |->
     IF items[i].product_id = pid THEN [items[i] EXCEPT !.product_id = NULL]
     ELSE items[i]]

DeleteCourse(s, u, cid) ==
  /\ req[s].pc = "idle"
  /\ UNCHANGED <<tokens, paylog>>
  /\ IF ~IsAdmin(u) THEN Reply(s, "delete_course", u, 403, cid)
     ELSE IF cid \notin DOMAIN courses THEN Reply(s, "delete_course", u, 404, cid)
     ELSE IF \E e \in DOMAIN enrollments : enrollments[e].course_id = cid
     THEN Reply(s, "delete_course", u, 400, cid)
     ELSE /\ courses' = Remove(courses, cid)
          /\ order_items' = NullifyCourse(order_items, cid)
          /\ req' = [req EXCEPT ![s] = [IdleReq EXCEPT !.pc = "returned", !.op = "delete_course",
                                                       !.user = u, !.id = cid,
                                                       !.code = 200]]
          /\ UNCHANGED <<users, products, orders, enrollments>>

\* stock is int(data.get('stock_quantity', 0)); status defaults to active.
CreateProduct(s, u, price, stock, status) ==
  /\ req[s].pc = "idle"
  /\ UNCHANGED <<tokens, paylog>>
  /\ IF ~IsAdmin(u) THEN Reply(s, "create_product", u, 403, NULL)
     ELSE IF price = 0 THEN Reply(s, "create_product", u, 400, NULL)
     ELSE LET pid == NextId(DOMAIN products) IN
          /\ pid \in ProductIds
          /\ products' = Upsert(products,
                                pid :> [price |-> price, stock_quantity |-> stock,
                                        status |-> status])
          /\ req' = [req EXCEPT ![s] = [IdleReq EXCEPT !.pc = "returned", !.op = "create_product",
                                                       !.user = u, !.id = pid,
                                                       !.code = 201]]
          /\ UNCHANGED <<users, courses, orders, order_items, enrollments>>

UpdateProduct(s, u, pid, hasStock, stock, hasStatus, status) ==
  /\ req[s].pc = "idle"
  /\ UNCHANGED <<tokens, paylog>>
  /\ IF ~IsAdmin(u) THEN Reply(s, "update_product", u, 403, pid)
     ELSE IF pid \notin DOMAIN products THEN Reply(s, "update_product", u, 404, pid)
     ELSE /\ products' = [products EXCEPT
                            ![pid].stock_quantity = IF hasStock THEN stock ELSE @,
                            ![pid].status = IF hasStatus THEN status ELSE @]
          /\ req' = [req EXCEPT ![s] = [IdleReq EXCEPT !.pc = "returned", !.op = "update_product",
                                                       !.user = u, !.id = pid,
                                                       !.code = 200]]
          /\ UNCHANGED <<users, courses, orders, order_items, enrollments>>

DeleteProduct(s, u, pid) ==
  /\ req[s].pc = "idle"
  /\ UNCHANGED <<tokens, paylog>>
  /\ IF ~IsAdmin(u) THEN Reply(s, "delete_product", u, 403, pid)
     ELSE IF pid \notin DOMAIN products THEN Reply(s, "delete_product", u, 404, pid)
     ELSE /\ products' = Remove(products, pid)
          /\ order_items' = NullifyProduct(order_items, pid)
          /\ req' = [req EXCEPT ![s] = [IdleReq EXCEPT !.pc = "returned", !.op = "delete_product",
                                                       !.user = u, !.id = pid,
                                                       !.code = 200]]
          /\ UNCHANGED <<users, courses, orders, enrollments>>

\* role and status are whatever the request holds.
UpdateUser(s, u, target, hasRole, role, hasStatus, status) ==
  /\ req[s].pc = "idle"
  /\ UNCHANGED <<tokens, paylog>>
  /\ IF ~IsAdmin(u) THEN Reply(s, "update_user", u, 403, target)
     ELSE IF target \notin DOMAIN users THEN Reply(s, "update_user", u, 404, target)
     ELSE /\ users' = [users EXCEPT
                         ![target].role = IF hasRole THEN role ELSE @,
                         ![target].status = IF hasStatus THEN status ELSE @]
          /\ req' = [req EXCEPT ![s] = [IdleReq EXCEPT !.pc = "returned", !.op = "update_user",
                                                       !.user = u, !.id = target,
                                                       !.code = 200]]
          /\ UNCHANGED <<courses, products, orders, order_items, enrollments>>

DeleteUser(s, u, target) ==
  /\ req[s].pc = "idle"
  /\ UNCHANGED <<tokens, paylog>>
  /\ IF ~IsAdmin(u) THEN Reply(s, "delete_user", u, 403, target)
     ELSE IF target \notin DOMAIN users THEN Reply(s, "delete_user", u, 404, target)
     ELSE IF users[target].role = "admin" THEN Reply(s, "delete_user", u, 400, target)
     ELSE /\ DeleteUserRows(target)
          /\ req' = [req EXCEPT ![s] = [IdleReq EXCEPT !.pc = "returned", !.op = "delete_user",
                                                       !.user = u, !.id = target,
                                                       !.code = 200]]

\* status = "" stands for a missing or falsy status.
UpdateOrderStatus(s, u, oid, status) ==
  /\ req[s].pc = "idle"
  /\ UNCHANGED <<tokens, paylog>>
  /\ IF ~IsAdmin(u) THEN Reply(s, "update_order_status", u, 403, oid)
     ELSE IF oid \notin DOMAIN orders THEN Reply(s, "update_order_status", u, 404, oid)
     ELSE IF status = "" \/ status \notin OrderStatuses
     THEN Reply(s, "update_order_status", u, 400, oid)
     ELSE /\ orders' = [orders EXCEPT ![oid].status = status]
          /\ req' = [req EXCEPT ![s] = [IdleReq EXCEPT !.pc = "returned", !.op = "update_order_status",
                                                       !.user = u, !.id = oid,
                                                       !.code = 200]]
          /\ UNCHANGED <<users, courses, products, order_items, enrollments>>

\* --------------------------------------------------------- listing routes
\* request.args.get('per_page', 10, type=int), and the 100 of min(..., 100).
DefaultPerPage == 10
MaxPerPage == 100

\* What paginate falls back to when it does not take the per_page it is given.
PaginateFallback == 20

\* per_page = min(request.args.get('per_page', 10, type=int), 100)
PerPage(hasPerPage, requested) ==
  LET asked == IF hasPerPage THEN requested ELSE DefaultPerPage
  IN IF asked <= MaxPerPage THEN asked ELSE MaxPerPage

\* page = request.args.get('page', 1, type=int)
Page(hasPage, requested) == IF hasPage THEN requested ELSE 1

\* query.paginate(page=page, per_page=per_page, error_out=False).  The
\* library is not pinned: a per_page of 1 or more is taken as it is; a
\* negative one is replaced by the fallback; 0 is replaced by the fallback
\* or, in older releases, taken as it is.  A page below 1 becomes 1.
PaginatePerPage(per_page) ==
  IF per_page >= 1 THEN {per_page}
  ELSE IF per_page = 0 THEN {0, PaginateFallback}
  ELSE {PaginateFallback}

PaginatePage(page) == IF page < 1 THEN 1 ELSE page

PaginatePages(total, per_page) ==
  IF per_page = 0 \/ total = 0 THEN 0 ELSE (total + per_page - 1) \div per_page

\* Faulty variant of PaginateItems: a page past the last one shows the last one.
PaginateItemsLastPage(found, page, per_page) ==
  LET pages == PaginatePages(Len(found), per_page)
      shown == IF page > pages /\ pages >= 1 THEN pages ELSE page
      first == (shown - 1) * per_page + 1
      last == IF shown * per_page < Len(found) THEN shown * per_page ELSE Len(found)
  IN SubSeq(found, first, last)

\* The rows at offset (page - 1) * per_page, at most per_page of them.
PaginateItems(found, page, per_page) ==
  LET first == (page - 1) * per_page + 1
      last == IF page * per_page < Len(found) THEN page * per_page ELSE Len(found)
  IN SubSeq(found, first, last)

\* The 'items' and 'pagination' of a 200 response: found is the whole
\* result of the query, in its order.
PaginateResponse(found, p, served) ==
  LET pages == PaginatePages(Len(found), served) IN
  [items |-> PaginateItems(found, p, served),
   page |-> p,
   pages |-> pages,
   per_page |-> served,
   total |-> Len(found),
   has_next |-> p < pages,
   has_prev |-> p > 1]

\* The 200 response of get_courses and get_products: the rows with the
\* status asked for, cut to the page, and the pagination figures.
Paginated(s, op, rows, hasPage, page, hasPerPage, perPage, status) ==
  LET found == SortedSeq({r \in DOMAIN rows : rows[r].status = status})
      p == PaginatePage(Page(hasPage, page))
      data == [has_page |-> hasPage, page |-> page,
               has_per_page |-> hasPerPage, per_page |-> perPage,
               status |-> status]
  IN \E served \in PaginatePerPage(PerPage(hasPerPage, perPage)) :
        ReplyBody(s, op, data, NULL, 200, PaginateResponse(found, p, served))

GetCourses(s, hasPage, page, hasPerPage, perPage, status) ==
  /\ req[s].pc = "idle"
  /\ UNCHANGED <<tokens, paylog>>
  /\ Paginated(s, "get_courses", courses, hasPage, page, hasPerPage, perPage, status)

GetProducts(s, hasPage, page, hasPerPage, perPage, status) ==
  /\ req[s].pc = "idle"
  /\ UNCHANGED <<tokens, paylog>>
  /\ Paginated(s, "get_products", products, hasPage, page, hasPerPage, perPage, status)

\* order_by(Order.created_at.desc()): the newest first.
Reverse(seq) == [i \in DOMAIN seq |-> seq[Len(seq) + 1 - i]]

\* get_my_orders: the caller's orders, of the status asked for if the
\* request names one (status "" stands for none).
MyOrders(u, status) ==
  Reverse(SortedSeq({o \in DOMAIN orders :
                       /\ orders[o].user_id = u
                       /\ status = "" \/ orders[o].status = status}))

GetMyOrders(s, u, hasPage, page, hasPerPage, perPage, status) ==
  /\ req[s].pc = "idle"
  /\ UNCHANGED <<tokens, paylog>>
  /\ LET p == PaginatePage(Page(hasPage, page))
         data == [has_page |-> hasPage, page |-> page,
                  has_per_page |-> hasPerPage, per_page |-> perPage,
                  status |-> status]
     IN \E served \in PaginatePerPage(PerPage(hasPerPage, perPage)) :
           ReplyBody(s, "get_my_orders", data, u, 200,
                     PaginateResponse(MyOrders(u, status), p, served))

\* ----------------------------------------------------------------- inputs
\* Lines that fail on their shape: no type, no id, an unknown type.
BadItems ==
  {[type |-> "", id |-> 1, quantity |-> 1],
   [type |-> "course", id |-> NULL, quantity |-> 1],
   [type |-> "bundle", id |-> 1, quantity |-> 1]}
CourseLines == [type : {"course"}, id : CourseIds, quantity : {1}]
ProductLines(quantities) == [type : {"product"}, id : ProductIds, quantity : quantities]
ItemInputs == CourseLines \cup ProductLines({MaxQty}) \cup BadItems
\* No more than cap orders are created.
OrdersBelow(cap) == NextId(OrderIdsInUse) <= cap

\* The users of the initial state: the admin run.py creates and two students
\* who have registered, their emails as register stores them.
FirstEmails ==
  (1 :> <<"r", "@", ".">>) @@ (2 :> <<"a", "@", ".">>) @@ (3 :> <<"b", "@", ".">>)
FirstPasswords == [u \in Callers |-> <<u, u, u, u, u, u>>]

\* ---------------------------------------------------------- specifications
Init ==
  /\ users = [u \in Callers |->
                [email |-> FirstEmails[u], password |-> PasswordHash(FirstPasswords[u]),
                 role |-> IF u = AdminId THEN "admin" ELSE "student",
                 status |-> "active"]]
  /\ tokens = {}
  /\ paylog = <<>>
  /\ courses = <<>>
  /\ products = <<>>
  /\ orders = <<>>
  /\ order_items = <<>>
  /\ enrollments = <<>>
  /\ req = [s \in Slots |-> IdleReq]

\* Spec: the checkout flow of one student and the catalogue changes of the
\* admin, one request at a time.
Next ==
  \/ \E u \in Buyers, empty \in BOOLEAN :
        (empty \/ OrdersBelow(MaxOrders)) /\ CreateOrderBegin(1, u, empty, "card")
  \/ \E it \in ItemInputs : CreateOrderItem(1, it)
  \/ CreateOrderCommit(1)
  \/ \E u \in Buyers, oid \in 1..MaxOrders, pm \in {"absent", ""} :
        PayOrderBegin(1, u, oid, pm)
  \/ PayOrderItem(1)
  \/ PayOrderCommit(1)
  \/ \E u \in Buyers, oid \in 1..MaxOrders : CancelOrder(1, u, oid)
  \/ \E u \in Buyers, cid \in CourseIds : EnrollBegin(1, u, cid)
  \/ EnrollCommit(1)
  \/ \E price \in CoursePrices : CreateCourse(1, AdminId, price, "active")
  \/ \E cid \in CourseIds, st \in {"active", "inactive"} :
        UpdateCourse(1, AdminId, cid, FALSE, 0, TRUE, st)
  \/ \E cid \in CourseIds : DeleteCourse(1, AdminId, cid)
  \/ \E price \in ProductPrices, stock \in {1, MaxStock} :
        CreateProduct(1, AdminId, price, stock, "active")
  \/ \E pid \in ProductIds : DeleteProduct(1, AdminId, pid)
  \/ \E oid \in 1..MaxOrders : UpdateOrderStatus(1, AdminId, oid, "refunded")
  \/ Teardown(1)

Spec == Init /\ [][Next]_vars

\* SpecStock: the stock of a product under orders, payments and the admin's
\* product requests, one request at a time.  The admin sets no negative stock.
NextStock ==
  \/ \E u \in Buyers : OrdersBelow(MaxStockOrders) /\ CreateOrderBegin(1, u, FALSE, "card")
  \/ \E it \in ProductLines(1..MaxQty) : CreateOrderItem(1, it)
  \/ CreateOrderCommit(1)
  \/ \E u \in Buyers, oid \in 1..MaxStockOrders : PayOrderBegin(1, u, oid, "absent")
  \/ PayOrderItem(1)
  \/ PayOrderCommit(1)
  \/ \E u \in Buyers, oid \in 1..MaxStockOrders : CancelOrder(1, u, oid)
  \/ \E price \in ProductPrices, stock \in 0..MaxStock :
        CreateProduct(1, AdminId, price, stock, "active")
  \/ \E pid \in ProductIds, hasStock \in BOOLEAN, stock \in 0..MaxStock,
         hasStatus \in BOOLEAN, st \in ProductStatuses :
        UpdateProduct(1, AdminId, pid, hasStock, stock, hasStatus, st)
  \/ Teardown(1)

SpecStock == Init /\ [][NextStock]_vars

\* SpecEnroll: two students and their enrollments, one request at a time.
ProgressInputs == {0, 50, 100, 101}

NextEnroll ==
  \/ \E price \in CoursePrices : CreateCourse(1, AdminId, price, "active")
  \/ \E u \in Students, cid \in CourseIds : EnrollBegin(1, u, cid)
  \/ EnrollCommit(1)
  \/ \E u \in Students, eid \in 1..Cardinality(Students), isNumber \in BOOLEAN,
         progress \in ProgressInputs : UpdateProgress(1, u, eid, isNumber, progress)
  \/ \E u \in Students, eid \in 1..Cardinality(Students) : CompleteCourse(1, u, eid)
  \/ \E u \in Students, eid \in 1..Cardinality(Students) : DropCourse(1, u, eid)
  \/ \E u \in Students, eid \in 1..Cardinality(Students) :
        ReactivateEnrollment(1, u, eid)
  \/ Teardown(1)

SpecEnroll == Init /\ [][NextEnroll]_vars

\* SpecRace: two requests served at the same time, their steps interleaved.
\* The catalogue has one course and one product with a stock of one.
RaceLines == CourseLines \cup ProductLines({1})

NextRace ==
  \/ \E price \in CoursePrices : CreateCourse(1, AdminId, price, "active")
  \/ \E price \in ProductPrices : CreateProduct(1, AdminId, price, 1, "active")
  \/ \E s \in Slots :
        \/ \E u \in Buyers : OrdersBelow(MaxRaceOrders) /\ CreateOrderBegin(s, u, FALSE, "card")
        \/ \E it \in RaceLines : Len(req[s].sess.items) < 1 /\ CreateOrderItem(s, it)
        \/ CreateOrderCommit(s)
        \/ \E u \in Buyers, oid \in 1..MaxRaceOrders : PayOrderBegin(s, u, oid, "absent")
        \/ PayOrderItem(s)
        \/ PayOrderCommit(s)
        \/ \E u \in Buyers, cid \in CourseIds : EnrollBegin(s, u, cid)
        \/ EnrollCommit(s)
        \/ Teardown(s)

SpecRace == Init /\ [][NextRace]_vars

\* SpecRetry: a student who calls pay_order again after a call that failed,
\* because no payment method was given, because the database refused the
\* commit, or because the commit failed for a reason of its own.
NextRetry ==
  \/ \E price \in CoursePrices : CreateCourse(1, AdminId, price, "active")
  \/ \E price \in ProductPrices : CreateProduct(1, AdminId, price, MaxStock, "active")
  \/ \E u \in Buyers : OrdersBelow(MaxRetryOrders) /\ CreateOrderBegin(1, u, FALSE, "")
  \/ \E it \in RaceLines : CreateOrderItem(1, it)
  \/ CreateOrderCommit(1)
  \/ \E u \in Buyers, oid \in 1..MaxRetryOrders, pm \in {"absent", "card"} :
        PayOrderBegin(1, u, oid, pm)
  \/ PayOrderItem(1)
  \/ PayOrderCommit(1)
  \/ PayOrderCommitFails(1)
  \/ \E u \in Buyers, oid \in 1..MaxRetryOrders : CancelOrder(1, u, oid)
  \/ \E u \in Buyers, cid \in CourseIds : EnrollBegin(1, u, cid)
  \/ EnrollCommit(1)
  \/ Teardown(1)

SpecRetry == Init /\ [][NextRetry]_vars

\* No more than cap user rows are created.
UsersBelow(cap) == NextId(DOMAIN users) <= cap

\* SpecAuth: login with emails and passwords of every shape, while the admin
\* changes the role and the status of the first student.
EmailInputs ==
  {<<>>, <<"a", "b">>, <<"c", "@", ".">>, <<" ", "C", "@", ".">>,
   <<"A", "@", ".", " ">>}
PasswordInputs == {<<>>, <<1, 2, 3>>, <<2, 2, 2, 2, 2, 2>>, <<9, 9, 9, 9, 9, 9>>}
RoleInputs == {"absent", "admin", "superuser"}
StatusInputs == {"active", "inactive", "banned", "frozen"}

NextAuth ==
  \/ \E raw \in EmailInputs, pw \in PasswordInputs : Login(1, raw, pw)
  \/ \E target \in Buyers, hasRole \in BOOLEAN, role \in RoleInputs \ {"absent"},
         hasStatus \in BOOLEAN, st \in StatusInputs :
        UpdateUser(1, AdminId, target, hasRole, role, hasStatus, st)
  \/ \E u \in Buyers, current \in PasswordInputs, new \in PasswordInputs :
        ChangePassword(1, u, current, new)
  \/ \E t \in tokens : TokenExpires(t)
  \/ Teardown(1)

SpecAuth == Init /\ [][NextAuth]_vars

\* SpecRegister: register requests served two at a time, and the admin's
\* update_user on the first student.  The requests: a new email as it is
\* stored, the same email in another spelling, the email of the first
\* student in another spelling, and requests that fail a check.
RegisterInputs ==
  {[email |-> <<"c", "@", ".">>, password |-> <<9, 9, 9, 9, 9, 9>>,
    has_name |-> TRUE, role |-> "absent"],
   [email |-> <<" ", "C", "@", ".">>, password |-> <<9, 9, 9, 9, 9, 9>>,
    has_name |-> TRUE, role |-> "superuser"],
   [email |-> <<"c", "@", ".">>, password |-> <<9, 9, 9, 9, 9, 9>>,
    has_name |-> TRUE, role |-> "admin"],
   [email |-> <<"A", "@", ".", " ">>, password |-> <<9, 9, 9, 9, 9, 9>>,
    has_name |-> TRUE, role |-> "absent"],
   [email |-> <<"A", "@", ".", " ">>, password |-> <<>>,
    has_name |-> TRUE, role |-> "absent"],
   [email |-> <<"a", "@", ".">>, password |-> <<9, 9, 9, 9, 9, 9>>,
    has_name |-> FALSE, role |-> "absent"],
   [email |-> <<"a", "b">>, password |-> <<9, 9, 9, 9, 9, 9>>,
    has_name |-> TRUE, role |-> "absent"],
   [email |-> <<>>, password |-> <<9, 9, 9, 9, 9, 9>>,
    has_name |-> TRUE, role |-> "absent"],
   [email |-> <<"c", "@", ".">>, password |-> <<1, 2, 3>>,
    has_name |-> TRUE, role |-> "absent"]}

NextRegister ==
  \/ \E s \in Slots, d \in RegisterInputs :
        /\ RegisterCheck(d.email, d.password, d.has_name).code # 0
             \/ UsersBelow(MaxUsers)
        /\ RegisterBegin(s, d.email, d.password, d.has_name, d.role)
  \/ \E s \in Slots : RegisterCommit(s)
  \/ \E target \in Buyers, hasRole \in BOOLEAN, hasStatus \in BOOLEAN,
         st \in {"banned", "frozen"} :
        UpdateUser(1, AdminId, target, hasRole, "superuser", hasStatus, st)
  \/ \E s \in Slots : Teardown(s)

SpecRegister == Init /\ [][NextRegister]_vars

\* SpecToken: the first student logs in, changes the password and is banned
\* or set inactive by the admin, and calls the authenticated operations with
\* a token that was issued, or with one that was not or has expired.  The
\* login is with the first password, so a token is never younger than a
\* password change.
TokenInputs == {Token(u) : u \in Buyers}
JwtOps == {"create_order", "pay_order", "enroll_course", "change_password"}

NextToken ==
  \/ \E u \in Buyers : Login(1, FirstEmails[u], FirstPasswords[u])
  \/ \E t \in tokens : TokenExpires(t)
  \/ \E t \in TokenInputs :
      \E current \in {FirstPasswords[t.sub], <<9, 9, 9, 9, 9, 9>>} :
        WithJwt(1, "change_password", t,
                ChangePassword(1, t.sub, current, <<9, 9, 9, 9, 9, 9>>))
  \/ \E target \in Buyers, st \in UserStatuses :
        UpdateUser(1, AdminId, target, FALSE, "", TRUE, st)
  \/ \E price \in CoursePrices : CreateCourse(1, AdminId, price, "active")
  \/ \E t \in TokenInputs :
        WithJwt(1, "create_order", t,
                OrdersBelow(MaxOrders) /\ CreateOrderBegin(1, t.sub, FALSE, "card"))
  \/ \E it \in CourseLines : CreateOrderItem(1, it)
  \/ CreateOrderCommit(1)
  \/ \E t \in TokenInputs, oid \in 1..MaxOrders :
        WithJwt(1, "pay_order", t, PayOrderBegin(1, t.sub, oid, "absent"))
  \/ PayOrderItem(1)
  \/ PayOrderCommit(1)
  \/ \E t \in TokenInputs, cid \in CourseIds :
        WithJwt(1, "enroll_course", t, EnrollBegin(1, t.sub, cid))
  \/ EnrollCommit(1)
  \/ Teardown(1)

SpecToken == Init /\ [][NextToken]_vars

\* SpecAdmin: the admin operations called by anyone, a user that does not
\* exist included, while roles change, users are deleted and a new user
\* registers with role admin; a student orders and enrolls so that there are
\* orders and enrollments.  Prices are whatever number the request holds.
Anyone == 1..MaxUsers
PriceInputs == {-5, 0, 100}
AdminOps ==
  {"create_course", "update_course", "delete_course", "create_product",
   "update_product", "delete_product", "update_user", "delete_user",
   "update_order_status"}

NextAdmin ==
  \/ \E u \in Anyone, price \in PriceInputs : CreateCourse(1, u, price, "active")
  \/ \E u \in Anyone, cid \in CourseIds, hasPrice \in BOOLEAN, price \in PriceInputs :
        UpdateCourse(1, u, cid, hasPrice, price, ~hasPrice, "inactive")
  \/ \E u \in Anyone, cid \in CourseIds : DeleteCourse(1, u, cid)
  \/ \E u \in Anyone, price \in ProductPrices :
        CreateProduct(1, u, price, MaxStock, "active")
  \/ \E u \in Anyone, pid \in ProductIds :
        UpdateProduct(1, u, pid, FALSE, 0, TRUE, "inactive")
  \/ \E u \in Anyone, pid \in ProductIds : DeleteProduct(1, u, pid)
  \/ \E u \in Anyone, target \in {AdminId} \cup Buyers, role \in UserRoles :
        UpdateUser(1, u, target, TRUE, role, FALSE, "")
  \/ \E u \in Anyone, target \in Anyone : DeleteUser(1, u, target)
  \/ \E u \in Anyone : DeleteCurrentUser(1, u)
  \/ /\ UsersBelow(MaxUsers)
     /\ RegisterBegin(1, <<"c", "@", ".">>, <<9, 9, 9, 9, 9, 9>>, TRUE, "admin")
  \/ RegisterCommit(1)
  \/ \E u \in Anyone, oid \in 1..MaxOrders : UpdateOrderStatus(1, u, oid, "refunded")
  \/ \E u \in Buyers :
        /\ u \in DOMAIN users
        /\ OrdersBelow(MaxOrders)
        /\ CreateOrderBegin(1, u, FALSE, "card")
  \/ \E it \in CourseLines : CreateOrderItem(1, it)
  \/ CreateOrderCommit(1)
  \/ \E u \in Buyers, cid \in CourseIds : u \in DOMAIN users /\ EnrollBegin(1, u, cid)
  \/ EnrollCommit(1)
  \/ Teardown(1)

SpecAdmin == Init /\ [][NextAdmin]_vars

\* SpecList: the admin creates, changes and deletes the course and the
\* product and a student orders and cancels, while they are listed with
\* every shape of page and per_page.
PageInputs == {0, 1, 2, 3}
PerPageInputs == {-1, 0, 1, 10, 100, 101}
ListOps == {"get_courses", "get_products"}
PagedOps == ListOps \cup {"get_my_orders"}

NextList ==
  \/ \E st \in CourseStatuses : CreateCourse(1, AdminId, 100, st)
  \/ UpdateCourse(1, AdminId, 1, FALSE, 0, TRUE, "inactive")
  \/ DeleteCourse(1, AdminId, 1)
  \/ \E st \in ProductStatuses : CreateProduct(1, AdminId, 30, MaxStock, st)
  \/ DeleteProduct(1, AdminId, 1)
  \/ \E page \in PageInputs, perPage \in PerPageInputs, st \in {"active", "inactive"} :
     \E hasPage \in (IF page = 1 THEN BOOLEAN ELSE {TRUE}),
        hasPerPage \in (IF perPage = DefaultPerPage THEN BOOLEAN ELSE {TRUE}) :
        \/ GetCourses(1, hasPage, page, hasPerPage, perPage, st)
        \/ GetProducts(1, hasPage, page, hasPerPage, perPage, st)
        \/ \E u \in Buyers, ost \in {"", "pending", "paid"} :
              GetMyOrders(1, u, hasPage, page, hasPerPage, perPage, ost)
  \/ \E u \in Buyers :
        /\ OrdersBelow(MaxListOrders)
        /\ CreateOrderBegin(1, u, FALSE, "card")
  \/ \E it \in CourseLines : CreateOrderItem(1, it)
  \/ CreateOrderCommit(1)
  \/ \E u \in Buyers, oid \in 1..MaxListOrders : CancelOrder(1, u, oid)
  \/ Teardown(1)

SpecList == Init /\ [][NextList]_vars

\* SpecScope: two students order, pay, cancel and enroll, and each calls the
\* order and enrollment operations with the ids of both.
ScopedOps ==
  {"update_progress", "complete_course", "drop_course", "reactivate_enrollment",
   "pay_order", "cancel_order"}

NextScope ==
  \/ \E price \in CoursePrices : CreateCourse(1, AdminId, price, "active")
  \/ \E price \in ProductPrices : CreateProduct(1, AdminId, price, MaxStock, "active")
  \/ \E u \in Students : OrdersBelow(MaxScopeOrders) /\ CreateOrderBegin(1, u, FALSE, "card")
  \/ \E it \in RaceLines : Len(req[1].sess.items) < 1 /\ CreateOrderItem(1, it)
  \/ CreateOrderCommit(1)
  \/ \E u \in Students, oid \in 1..MaxScopeOrders : PayOrderBegin(1, u, oid, "absent")
  \/ PayOrderItem(1)
  \/ PayOrderCommit(1)
  \/ \E u \in Students, oid \in 1..MaxScopeOrders : CancelOrder(1, u, oid)
  \/ \E u \in Students, cid \in CourseIds : EnrollBegin(1, u, cid)
  \/ EnrollCommit(1)
  \/ \E u \in Students, eid \in 1..Cardinality(Students) :
        \/ UpdateProgress(1, u, eid, TRUE, 50)
        \/ CompleteCourse(1, u, eid)
        \/ DropCourse(1, u, eid)
        \/ ReactivateEnrollment(1, u, eid)
  \/ Teardown(1)

SpecScope == Init /\ [][NextScope]_vars

\* SpecLines: a student orders course and product lines of any quantity,
\* zero and negative ones included, and pays, while the student enrolls and
\* drops and the admin changes the status of the course and the product.
QtyInputs == {-1, 0, 1, MaxQty}
LineInputs == [type : {"course", "product"}, id : {1}, quantity : QtyInputs]

NextLines ==
  \/ \E price \in CoursePrices : CreateCourse(1, AdminId, price, "active")
  \/ \E cid \in CourseIds, st \in {"active", "inactive"} :
        UpdateCourse(1, AdminId, cid, FALSE, 0, TRUE, st)
  \/ \E price \in ProductPrices : CreateProduct(1, AdminId, price, 1, "active")
  \/ \E pid \in ProductIds, st \in {"active", "inactive"} :
        UpdateProduct(1, AdminId, pid, FALSE, 0, TRUE, st)
  \/ \E u \in Buyers : OrdersBelow(MaxLineOrders) /\ CreateOrderBegin(1, u, FALSE, "card")
  \/ \E it \in LineInputs : CreateOrderItem(1, it)
  \/ CreateOrderCommit(1)
  \/ \E u \in Buyers, oid \in 1..MaxLineOrders : PayOrderBegin(1, u, oid, "absent")
  \/ PayOrderItem(1)
  \/ PayOrderCommit(1)
  \/ \E u \in Buyers, cid \in CourseIds : EnrollBegin(1, u, cid)
  \/ EnrollCommit(1)
  \/ \E u \in Buyers : DropCourse(1, u, 1)
  \/ Teardown(1)

SpecLines == Init /\ [][NextLines]_vars

\* SpecOverride: a student orders, pays and cancels while the admin sets
\* the status of the orders to whatever the request holds.
OverrideInputs == OrderStatuses \cup {"", "shipped"}

NextOverride ==
  \/ \E price \in CoursePrices : CreateCourse(1, AdminId, price, "active")
  \/ \E price \in ProductPrices : CreateProduct(1, AdminId, price, MaxStock, "active")
  \/ \E u \in Buyers :
        OrdersBelow(MaxOverrideOrders) /\ CreateOrderBegin(1, u, FALSE, "card")
  \/ \E it \in RaceLines : CreateOrderItem(1, it)
  \/ CreateOrderCommit(1)
  \/ \E u \in Buyers, oid \in 1..MaxOverrideOrders :
        /\ PayLog(oid).applied < MaxApplied
        /\ PayOrderBegin(1, u, oid, "absent")
  \/ PayOrderItem(1)
  \/ PayOrderCommit(1)
  \/ \E u \in Buyers, oid \in 1..MaxOverrideOrders : CancelOrder(1, u, oid)
  \/ \E oid \in 1..MaxOverrideOrders, st \in OverrideInputs :
        UpdateOrderStatus(1, AdminId, oid, st)
  \/ Teardown(1)

SpecOverride == Init /\ [][NextOverride]_vars

\* SpecIntegrity: the students log in, order, pay and enroll with their
\* tokens, delete their accounts or are deleted by the admin, and go on
\* calling with the tokens they hold; the admin creates and deletes the
\* course.
StudentTokens == {Token(u) : u \in Students}

NextIntegrity ==
  \/ \E u \in Students : Login(1, FirstEmails[u], FirstPasswords[u])
  \/ \E t \in StudentTokens :
        WithJwt(1, "delete_current_user", t, DeleteCurrentUser(1, t.sub))
  \/ \E target \in Students : DeleteUser(1, AdminId, target)
  \/ \E price \in CoursePrices : CreateCourse(1, AdminId, price, "active")
  \/ \E cid \in CourseIds : DeleteCourse(1, AdminId, cid)
  \/ \E t \in StudentTokens :
        WithJwt(1, "create_order", t,
                OrdersBelow(MaxIntegrityOrders) /\ CreateOrderBegin(1, t.sub, FALSE, "card"))
  \/ \E it \in CourseLines : Len(req[1].sess.items) < 1 /\ CreateOrderItem(1, it)
  \/ CreateOrderCommit(1)
  \/ \E t \in StudentTokens, oid \in 1..MaxIntegrityOrders :
        WithJwt(1, "pay_order", t, PayOrderBegin(1, t.sub, oid, "absent"))
  \/ PayOrderItem(1)
  \/ PayOrderCommit(1)
  \/ \E t \in StudentTokens, cid \in CourseIds :
        WithJwt(1, "enroll_course", t, EnrollBegin(1, t.sub, cid))
  \/ EnrollCommit(1)
  \/ Teardown(1)

SpecIntegrity == Init /\ [][NextIntegrity]_vars

\* ------------------------------------------------------------------ claims
\* A step of slot s that belongs to a request of operation op: from the step
\* that starts it to the teardown that ends it.
StepOf(s, op) == req[s].op = op \/ req'[s].op = op

\* The step in which the handler of slot s commits and answers code.
CommitStep(s, code) ==
  /\ req[s].pc \notin {"idle", "returned"}
  /\ req'[s].pc = "returned"
  /\ req'[s].code = code

\* C1: create_order is all-or-nothing.  No step of a create_order request
\* other than the commit that answers 201 changes the orders or order_items
\* tables: not the flush of the Order, not the lines added before a failing
\* line, not the error return, not the teardown after it.  A request that
\* answers an error has no such commit, so none of its rows persists.
C1_CreateOrderAllOrNothing ==
  [][(StepOf(1, "create_order") /\ ~CommitStep(1, 201))
       => (orders' = orders /\ order_items' = order_items)]_vars

\* C1 witness: create_order has returned 400 on a line after a valid line;
\* its session still holds the flushed Order and the earlier OrderItem.
C1_Witness ==
  /\ req[1].op = "create_order"
  /\ req[1].pc = "returned"
  /\ req[1].code = 400
  /\ req[1].id \in DOMAIN req[1].sess.orders
  /\ Len(req[1].sess.items) >= 1

\* C2 (as claimed): every enrollment has progress 100 exactly when its status
\* is completed.
C2_ProgressIffCompleted ==
  \A e \in DOMAIN enrollments :
    (enrollments[e].progress = 100) <=> (enrollments[e].status = "completed")

\* C3 (as claimed): no product has a negative stock_quantity.
C3_StockNeverNegative ==
  \A p \in DOMAIN products : products[p].stock_quantity >= 0

\* C4 (as claimed): a product whose stock_quantity is 0 has status
\* out_of_stock.
C4_ZeroStockIsOutOfStock ==
  \A p \in DOMAIN products :
    products[p].stock_quantity = 0 => products[p].status = "out_of_stock"

\* The paid orders that hold a product line.
PaidProductOrders ==
  {o \in DOMAIN orders :
     /\ orders[o].status = "paid"
     /\ \E i \in DOMAIN order_items :
          order_items[i].order_id = o /\ order_items[i].item_type = "product"}

\* C5 (as claimed): with a stock of one and orders of quantity one, at most
\* one order is paid.
C5_AtMostOneOrderPaid == Cardinality(PaidProductOrders) <= 1

\* C6: at most one Enrollment exists per (user, course) pair, whatever the
\* interleaving of enroll_course, create_order and pay_order requests.
C6_OneEnrollmentPerUserCourse ==
  \A e1, e2 \in DOMAIN enrollments :
    (enrollments[e1].user_id = enrollments[e2].user_id
       /\ enrollments[e1].course_id = enrollments[e2].course_id) => e1 = e2

\* C6 witness: the pair is enrolled and a second enroll_course request, which
\* had passed the handler's own check, was refused at its commit.
C6_Witness ==
  \E s \in Slots :
    /\ req[s].op = "enroll_course"
    /\ req[s].pc = "returned"
    /\ req[s].code = 500
    /\ \E e \in DOMAIN enrollments : enrollments[e].user_id = req[s].user

\* C7: pay_order commits the status change and the item side effects
\* together.  No step of a pay_order request other than the commit that
\* answers 200 changes any table, and when the request answers 500 the order
\* is still pending with payment_status pending.
C7_PayOrderAtomic ==
  [][(StepOf(1, "pay_order") /\ ~CommitStep(1, 200))
       => /\ UNCHANGED tables
          /\ (req'[1].pc = "returned" /\ req'[1].code = 500)
               => /\ orders'[req'[1].id].status = "pending"
                  /\ orders'[req'[1].id].payment_status = "pending"]_vars

\* C7 witness: pay_order has answered 500 on an order whose first item is a
\* line of an existing product (its stock was decremented in the session)
\* and whose second item is the course line that failed.
C7_Witness ==
  /\ req[1].op = "pay_order"
  /\ req[1].pc = "returned"
  /\ req[1].code = 500
  /\ Len(req[1].loaded) = 2
  /\ req[1].loaded[1].item_type = "product"
  /\ req[1].loaded[1].product_id \in DOMAIN products
  /\ req[1].loaded[2].item_type = "course"

\* C8: pay_order on the caller's order whose status is not pending answers
\* 400, writes nothing to its session and changes no table.
C8_PayNonPendingRefused ==
  [][(/\ req[1].pc = "idle"
      /\ req'[1].op = "pay_order"
      /\ req'[1].id \in DOMAIN orders
      /\ orders[req'[1].id].user_id = req'[1].user
      /\ orders[req'[1].id].status # "pending")
       => /\ req'[1].pc = "returned"
          /\ req'[1].code = 400
          /\ req'[1].sess = EmptySession
          /\ UNCHANGED tables]_vars

\* C8 witness: pay_order has answered 400 on a refunded order.
C8_Witness ==
  /\ req[1].op = "pay_order"
  /\ req[1].pc = "returned"
  /\ req[1].code = 400
  /\ req[1].id \in DOMAIN orders
  /\ orders[req[1].id].status = "refunded"

\* C9: every committed order has total_amount equal to the sum of the price
\* fields of its items, each the course's price or the product's unit price
\* times the quantity.
C9_TotalIsSumOfItemPrices ==
  /\ \A o \in DOMAIN orders : orders[o].total_amount = SumPrices(ItemsOf(o))
  /\ \A i \in DOMAIN order_items :
       IF order_items[i].item_type = "course"
       THEN order_items[i].price \in CoursePrices
       ELSE \E p \in ProductPrices :
              order_items[i].price = p * order_items[i].quantity

\* C9 witness: a committed order of a course line and a product line of
\* quantity two.
C9_Witness ==
  \E o \in DOMAIN orders :
    /\ Len(ItemsOf(o)) = 2
    /\ \E i, j \in DOMAIN order_items :
         /\ order_items[i].order_id = o /\ order_items[i].item_type = "course"
         /\ order_items[j].order_id = o /\ order_items[j].item_type = "product"
         /\ order_items[j].quantity = 2
    /\ orders[o].total_amount > 0

\* C10 (as claimed): every OrderItem has exactly one of course_id and
\* product_id set.
C10_ExactlyOneReference ==
  \A i \in DOMAIN order_items :
    (order_items[i].course_id # NULL) # (order_items[i].product_id # NULL)

\* The committed order o is one course line of a course that exists, and
\* its buyer holds no enrollment for that course.
OneCourseOrder(o) ==
  /\ o \in DOMAIN orders
  /\ LET items == ItemsOf(o) IN
     /\ Len(items) = 1
     /\ items[1].item_type = "course"
     /\ items[1].course_id \in DOMAIN courses
     /\ ~\E e \in DOMAIN enrollments :
          /\ enrollments[e].user_id = orders[o].user_id
          /\ enrollments[e].course_id = items[1].course_id

\* C11: the checkout scenario.  A create_order request of one line for an
\* active course of price 100 that the caller is not enrolled in commits an
\* order with total_amount 100, status pending and payment_status pending.
\* A pay_order request on a pending order of one course line, the course
\* still there and the buyer still not enrolled, answers 200 and leaves the
\* order paid with payment_status completed and an Enrollment of the buyer
\* for the course with status active and progress 0.
C11_CheckoutScenario ==
  [][/\ (/\ req[1].op = "create_order"
         /\ CommitStep(1, 201)
         /\ Len(req[1].sess.items) = 1
         /\ req[1].sess.items[1].item_type = "course")
        => LET o == orders'[req[1].id] IN
           /\ o.user_id = req[1].user
           /\ o.total_amount = 100
           /\ o.status = "pending"
           /\ o.payment_status = "pending"
           /\ OneCourseOrder(req[1].id)'
     /\ (/\ req[1].op = "pay_order"
         /\ req[1].pc = "po_items"
         /\ req'[1].pc = "returned"
         /\ OneCourseOrder(req[1].id))
        => /\ req'[1].code = 200
           /\ orders'[req[1].id].status = "paid"
           /\ orders'[req[1].id].payment_status = "completed"
           /\ \E e \in DOMAIN enrollments' :
                enrollments'[e] =
                  [user_id |-> req[1].user,
                   course_id |-> ItemsOf(req[1].id)[1].course_id,
                   progress |-> 0, status |-> "active"]]_vars

\* C11 witness: pay_order has answered 200 on an order of one course line
\* with total 100, and the buyer is enrolled.
C11_Witness ==
  /\ req[1].op = "pay_order"
  /\ req[1].pc = "returned"
  /\ req[1].code = 200
  /\ req[1].id \in DOMAIN orders
  /\ orders[req[1].id].total_amount = 100
  /\ orders[req[1].id].status = "paid"
  /\ Len(ItemsOf(req[1].id)) = 1
  /\ \E e \in DOMAIN enrollments :
       /\ enrollments[e].user_id = orders[req[1].id].user_id
       /\ enrollments[e].course_id = ItemsOf(req[1].id)[1].course_id
       /\ enrollments[e].status = "active"
       /\ enrollments[e].progress = 0


LoginHolders(data) ==
  {u \in DOMAIN users :
     /\ users[u].email = NormalizeEmail(data.email)
     /\ users[u].password.hash_of = data.password}

\* C13: a login request that carries an email and a password answers 200
\* with a token for the user, and issues that token, exactly when the email
\* is a user's, the password is that user's and the user's status is active;
\* otherwise it answers 401 and issues no token.  When the password is not
\* the account's or there is no such account the error is the same
\* "Invalid email or password".  login changes no table.
C13_LoginIssuesToken ==
  [][(/\ req[1].pc = "idle"
      /\ req'[1].op = "login"
      /\ req'[1].loaded.email # <<>>
      /\ req'[1].loaded.password # <<>>)
       => LET holders == LoginHolders(req'[1].loaded)
              active == {u \in holders : users[u].status = "active"}
          IN /\ req'[1].pc = "returned"
             /\ IF active # {}
                THEN /\ req'[1].code = 200
                     /\ \E u \in active :
                          /\ req'[1].body.access_token = {Token(u)}
                          /\ tokens' = tokens \cup {Token(u)}
                ELSE /\ req'[1].code = 401
                     /\ req'[1].body.access_token = {}
                     /\ tokens' = tokens
             /\ holders = {} => req'[1].body.error = "Invalid email or password"
             /\ UNCHANGED tables]_vars

\* C13 witness: login with the right email and password of a user who is
\* not active has answered 401 without a token.
C13_Witness ==
  /\ req[1].op = "login"
  /\ req[1].pc = "returned"
  /\ req[1].code = 401
  /\ req[1].body.access_token = {}
  /\ \E u \in LoginHolders(req[1].loaded) : users[u].status \in {"inactive", "banned"}
  /\ tokens = {}

\* C14: no two users share an email, and a register request whose email,
\* lower-cased and trimmed, is the email of an existing user answers 400,
\* adds nothing to its session, creates no user and issues no token; with
\* the password and the full name given the error is "Email already
\* registered".
C14_RegisterEmailUnique ==
  /\ [](\A u1, u2 \in DOMAIN users : users[u1].email = users[u2].email => u1 = u2)
  /\ [][\A s \in Slots :
          (/\ req[s].pc = "idle"
           /\ req'[s].op = "register"
           /\ \E u \in DOMAIN users :
                users[u].email = Strip(Lower(req'[s].loaded.email)))
            => /\ req'[s].pc = "returned"
               /\ req'[s].code = 400
               /\ req'[s].sess = EmptySession
               /\ users' = users
               /\ tokens' = tokens
               /\ (req'[s].loaded.password # <<>> /\ req'[s].loaded.has_name)
                    => req'[s].body.error = "Email already registered"]_vars

\* C14 witness: of two register requests for one email served together one
\* was refused at its commit, and a later request for the email in another
\* spelling was refused with the conflict error.
C14_Witness ==
  \E s, t \in Slots :
    /\ s # t
    /\ req[s].op = "register" /\ req[s].pc = "returned" /\ req[s].code = 500
    /\ req[t].op = "register" /\ req[t].pc = "returned" /\ req[t].code = 400
    /\ req[t].body.error = "Email already registered"
    /\ req[t].loaded.email # Strip(Lower(req[t].loaded.email))
    /\ \E u \in DOMAIN users : users[u].email = Strip(Lower(req[s].loaded.email))

\* C18 (as claimed): every user's role is student or admin and every user's
\* status is active, inactive or banned.
C18_RoleStatusDomains ==
  \A u \in DOMAIN users :
    users[u].role \in UserRoles /\ users[u].status \in UserStatuses


\* C15: tokens are never revoked.  A request of an authenticated operation
\* that presents a token which was issued and has not expired is never
\* refused with 401, whatever the user's status has become and whatever
\* password changes there have been since the token was issued.
C15_TokensNeverRevoked ==
  [][(/\ req[1].pc = "idle"
      /\ req'[1].pc # "idle"
      /\ req'[1].op \in JwtOps
      /\ Token(req'[1].user) \in tokens)
       => req'[1].code # 401]_vars

\* C15 witness: create_order has answered 201 to a user who is banned or
\* inactive and whose password is no longer the one the token was issued on.
C15_Witness ==
  /\ req[1].op = "create_order"
  /\ req[1].pc = "returned"
  /\ req[1].code = 201
  /\ users[req[1].user].status \in {"banned", "inactive"}
  /\ users[req[1].user].password.hash_of # FirstPasswords[req[1].user]
  /\ Token(req[1].user) \in tokens


\* C16: an admin operation called by a user whose row does not exist or
\* whose role is not admin at that time answers 403 and changes no table.
C16_AdminRoleRequired ==
  [][(/\ req[1].pc = "idle"
      /\ req'[1].op \in AdminOps
      /\ ~(req'[1].user \in DOMAIN users /\ users[req'[1].user].role = "admin"))
       => /\ req'[1].pc = "returned"
          /\ req'[1].code = 403
          /\ req'[1].sess = EmptySession
          /\ UNCHANGED tables]_vars

\* C16 witness: the user run.py created as admin, since set to student by
\* another admin, has called an admin operation on an existing course and
\* was answered 403.
C16_Witness ==
  /\ req[1].op \in AdminOps
  /\ req[1].pc = "returned"
  /\ req[1].code = 403
  /\ req[1].user = AdminId
  /\ AdminId \in DOMAIN users
  /\ users[AdminId].role = "student"
  /\ DOMAIN courses # {}

\* C17: no step removes a user whose role is admin: delete_current_user
\* called by such a user answers 400, and so does the admin's delete_user on
\* such a user.
C17_AdminNeverDeleted ==
  [][/\ \A u \in DOMAIN users : users[u].role = "admin" => u \in DOMAIN users'
     /\ (/\ req[1].pc = "idle"
         /\ req'[1].op \in {"delete_current_user", "delete_user"}
         /\ req'[1].id \in DOMAIN users
         /\ users[req'[1].id].role = "admin"
         /\ req'[1].code # 403)
          => /\ req'[1].code = 400
             /\ UNCHANGED tables]_vars

\* C17 witness: delete_current_user called by a student who was made admin
\* has answered 400, and the user is still there.
C17_Witness ==
  /\ req[1].op = "delete_current_user"
  /\ req[1].pc = "returned"
  /\ req[1].code = 400
  /\ req[1].user \in Buyers
  /\ req[1].user \in DOMAIN users
  /\ users[req[1].user].role = "admin"

\* C19 (as claimed): every course has a price of 0 or more.
C19_CoursePriceNonNegative ==
  \A c \in DOMAIN courses : courses[c].price >= 0


\* C20 (as claimed): a listing answers with a per_page in 1..100: 10 when
\* the request has none, 100 when it asks for more than 100, 1 when it asks
\* for less than 1, and the number asked for otherwise.
C20_PerPageClamped ==
  (req[1].pc = "returned" /\ req[1].op \in ListOps)
    => LET asked == req[1].loaded IN
       /\ req[1].body.per_page \in 1..100
       /\ req[1].body.per_page =
            IF ~asked.has_per_page THEN 10
            ELSE IF asked.per_page > 100 THEN 100
            ELSE IF asked.per_page < 1 THEN 1
            ELSE asked.per_page


\* The whole result of the query behind a listing response of slot 1, as the
\* tables hold it.
FullResult ==
  LET asked == req[1].loaded IN
  IF req[1].op = "get_courses"
  THEN {c \in DOMAIN courses : courses[c].status = asked.status}
  ELSE IF req[1].op = "get_products"
  THEN {q \in DOMAIN products : products[q].status = asked.status}
  ELSE {o \in DOMAIN orders :
          /\ orders[o].user_id = req[1].user
          /\ asked.status = "" \/ orders[o].status = asked.status}

\* C21: a listing asked for a page past the last one answers with no items
\* and has_next false, while total is the size of the whole result and
\* pages the number of pages it fills.
C21_PageBeyondLast ==
  (/\ req[1].pc = "returned"
   /\ req[1].op \in PagedOps
   /\ req[1].body.page > req[1].body.pages)
    => LET b == req[1].body IN
       /\ b.items = <<>>
       /\ b.has_next = FALSE
       /\ b.total = Cardinality(FullResult)
       /\ \/ b.per_page = 0 /\ b.pages = 0
          \/ /\ b.per_page >= 1
             /\ (b.pages - 1) * b.per_page < b.total \/ b.total = 0
             /\ b.total <= b.pages * b.per_page

\* C21 witness: get_my_orders has answered page 3 of two orders listed one
\* to the page.
C21_Witness ==
  /\ req[1].pc = "returned"
  /\ req[1].op = "get_my_orders"
  /\ req[1].body.total = 2
  /\ req[1].body.pages = 2
  /\ req[1].body.page = 3
  /\ req[1].body.items = <<>>


\* C22: an enrollment operation called with the id of an enrollment of
\* another user, and pay_order or cancel_order called with the id of an
\* order of another user, answers 404 and changes no table.
C22_ScopedToCaller ==
  [][(/\ req[1].pc = "idle"
      /\ req'[1].op \in ScopedOps
      /\ IF req'[1].op \in {"pay_order", "cancel_order"}
         THEN /\ req'[1].id \in DOMAIN orders
              /\ orders[req'[1].id].user_id # req'[1].user
         ELSE /\ req'[1].id \in DOMAIN enrollments
              /\ enrollments[req'[1].id].user_id # req'[1].user)
       => /\ req'[1].pc = "returned"
          /\ req'[1].code = 404
          /\ req'[1].sess = EmptySession
          /\ UNCHANGED tables]_vars

\* C22 witness: a student has called pay_order with the id of the other
\* student's pending order of a product in stock, and was answered 404.
C22_Witness ==
  /\ req[1].pc = "returned"
  /\ req[1].op = "pay_order"
  /\ req[1].code = 404
  /\ req[1].id \in DOMAIN orders
  /\ orders[req[1].id].user_id # req[1].user
  /\ orders[req[1].id].status = "pending"
  /\ \E i \in DOMAIN order_items :
        /\ order_items[i].order_id = req[1].id
        /\ order_items[i].item_type = "product"
  /\ \E e \in DOMAIN enrollments : enrollments[e].user_id # req[1].user


\* The step has added a line to the order being created in slot 1.
LineAccepted ==
  /\ req'[1].pc = "co_items"
  /\ Len(req'[1].sess.items) = Len(req[1].sess.items) + 1

\* The line the step has added.
LineAdded == req'[1].sess.items[Len(req'[1].sess.items)]

\* C23: when create_order accepts a course line, of whatever quantity, the
\* course exists and is active and the caller has no enrollment for it, of
\* any status; the OrderItem has quantity 1 and the price of the course.
C23_CourseLineAccepted ==
  [][\A it \in LineInputs :
       (it.type = "course" /\ CreateOrderItem(1, it) /\ LineAccepted)
         => /\ it.id \in DOMAIN courses
            /\ courses[it.id].status = "active"
            /\ ~\E e \in DOMAIN enrollments :
                  /\ enrollments[e].user_id = req[1].user
                  /\ enrollments[e].course_id = it.id
            /\ LineAdded.item_type = "course"
            /\ LineAdded.course_id = it.id
            /\ LineAdded.quantity = 1
            /\ LineAdded.price = courses[it.id].price]_vars

\* C23 witness: an order of the student was created with a course line, and
\* a later create_order for the same course was refused with 400 while the
\* student's only enrollment for it is a dropped one.
C23_Witness ==
  /\ req[1].pc = "returned"
  /\ req[1].op = "create_order"
  /\ req[1].code = 400
  /\ \E i \in DOMAIN order_items :
        /\ order_items[i].item_type = "course"
        /\ order_items[i].quantity = 1
        /\ order_items[i].course_id \in DOMAIN courses
        /\ courses[order_items[i].course_id].status = "active"
        /\ \A e \in DOMAIN enrollments :
              (enrollments[e].user_id = req[1].user
                 /\ enrollments[e].course_id = order_items[i].course_id)
                => enrollments[e].status = "dropped"
        /\ \E e \in DOMAIN enrollments :
              /\ enrollments[e].user_id = req[1].user
              /\ enrollments[e].course_id = order_items[i].course_id


\* C24: when create_order accepts a product line, the product exists, is
\* active and has a stock of at least the quantity asked for; the OrderItem
\* has that quantity and the unit price times it; and no step of
\* create_order changes a product.
C24_ProductLineAccepted ==
  [][/\ \A it \in LineInputs :
          (it.type = "product" /\ CreateOrderItem(1, it) /\ LineAccepted)
            => /\ it.id \in DOMAIN products
               /\ products[it.id].status = "active"
               /\ products[it.id].stock_quantity >= it.quantity
               /\ LineAdded.item_type = "product"
               /\ LineAdded.product_id = it.id
               /\ LineAdded.quantity = it.quantity
               /\ LineAdded.price = products[it.id].price * it.quantity
     /\ StepOf(1, "create_order") => UNCHANGED products]_vars

\* C24 witness: an order with a product line of quantity 1 has been created
\* and the product still has its stock of 1 and is active.
C24_Witness ==
  /\ req[1].pc = "returned"
  /\ req[1].op = "create_order"
  /\ req[1].code = 201
  /\ \E i \in DOMAIN order_items :
        /\ order_items[i].order_id = req[1].id
        /\ order_items[i].item_type = "product"
        /\ order_items[i].quantity = 1
        /\ order_items[i].product_id \in DOMAIN products
        /\ products[order_items[i].product_id].stock_quantity = 1
        /\ products[order_items[i].product_id].status = "active"

\* C29 (as claimed): every product OrderItem has a quantity of 1 or more,
\* every order a total_amount of 0 or more, and no step of pay_order
\* increases the stock of a product.
C29_QuantityPositive ==
  /\ [](\A i \in DOMAIN order_items :
          order_items[i].item_type = "product" => order_items[i].quantity >= 1)
  /\ [](\A o \in DOMAIN orders : orders[o].total_amount >= 0)
  /\ [][StepOf(1, "pay_order")
         => \A q \in DOMAIN products :
              q \in DOMAIN products'
                => products'[q].stock_quantity <= products[q].stock_quantity]_vars


StartsOnOwn(op, from) ==
  /\ req[1].pc = "idle"
  /\ req'[1].op = op
  /\ req'[1].id \in DOMAIN enrollments
  /\ enrollments[req'[1].id].user_id = req'[1].user
  /\ enrollments[req'[1].id].status \in from

\* The step answers 400 and changes no table.
Refused == req'[1].code = 400 /\ UNCHANGED tables

\* C26: complete_course on a completed enrollment and drop_course on a
\* dropped one answer 400 and change nothing; reactivate_enrollment on a
\* dropped enrollment answers 200 and sets its status to active, and on any
\* other answers 400 and changes nothing; no step of drop_course or
\* reactivate_enrollment changes a progress.
C26_EnrollmentTransitions ==
  [][/\ StartsOnOwn("complete_course", {"completed"}) => Refused
     /\ StartsOnOwn("drop_course", {"dropped"}) => Refused
     /\ StartsOnOwn("reactivate_enrollment", EnrollmentStatuses \ {"dropped"})
          => Refused
     /\ StartsOnOwn("reactivate_enrollment", {"dropped"})
          => /\ req'[1].code = 200
             /\ enrollments' = [enrollments EXCEPT ![req'[1].id].status = "active"]
     /\ (StepOf(1, "drop_course") \/ StepOf(1, "reactivate_enrollment"))
          => /\ DOMAIN enrollments' = DOMAIN enrollments
             /\ \A e \in DOMAIN enrollments :
                   enrollments'[e].progress = enrollments[e].progress]_vars

\* C26 witness: reactivate_enrollment was answered 400 for the caller's
\* completed enrollment, and another enrollment with a progress of 50 is
\* dropped.
C26_Witness ==
  /\ req[1].pc = "returned"
  /\ req[1].op = "reactivate_enrollment"
  /\ req[1].code = 400
  /\ req[1].id \in DOMAIN enrollments
  /\ enrollments[req[1].id].user_id = req[1].user
  /\ enrollments[req[1].id].status = "completed"
  /\ \E e \in DOMAIN enrollments :
        enrollments[e].status = "dropped" /\ enrollments[e].progress = 50


\* C27 (as claimed): an order has status paid exactly when its
\* payment_status is completed.
C27_PaidIffCompleted ==
  \A o \in DOMAIN orders :
    (orders[o].status = "paid") <=> (orders[o].payment_status = "completed")


\* The order has a course line.
HasCourseLine(o) ==
  \E i \in DOMAIN order_items :
    order_items[i].order_id = o /\ order_items[i].item_type = "course"

\* The step is the commit of a pay_order call on an order whose effects an
\* earlier call has applied: the admin has set the paid order back to
\* pending.
RepayCommits ==
  /\ req[1].op = "pay_order"
  /\ req[1].pc = "po_items"
  /\ req'[1].pc = "returned"
  /\ PayLog(req[1].id).applied >= 1

\* The step has applied the effects of the order of slot 1 once more.
AppliedAgain ==
  /\ req'[1].code = 200
  /\ paylog'[req[1].id].applied = paylog[req[1].id].applied + 1

\* Every step of update_order_status leaves all tables but orders as they
\* are, and of the orders all fields but status.
OverrideFrame ==
  StepOf(1, "update_order_status")
    => /\ UNCHANGED <<users, courses, products, order_items, enrollments>>
       /\ DOMAIN orders' = DOMAIN orders
       /\ \A o \in DOMAIN orders :
             orders'[o] = [orders[o] EXCEPT !.status = orders'[o].status]

\* C28 (as claimed): update_order_status changes the status field alone,
\* and pay_order on an order the admin has set back from paid to pending
\* applies the order's enrollments and stock decrements again.
C28_OverrideAppliesAgain ==
  [][/\ OverrideFrame
     /\ RepayCommits => AppliedAgain]_vars

\* C28 (amended): update_order_status changes the status field alone;
\* pay_order on an order the admin has set back from paid to pending applies
\* the stock decrements again when the order has no course line, and is
\* refused with 500, nothing applied, when it has one; so the effects of an
\* order with a course line are never applied twice.
C28_OverrideAppliesStockAgain ==
  /\ [][/\ OverrideFrame
        /\ RepayCommits
             => IF HasCourseLine(req[1].id)
                THEN req'[1].code = 500 /\ UNCHANGED tables
                ELSE AppliedAgain]_vars
  /\ [](\A o \in DOMAIN orders : HasCourseLine(o) => PayLog(o).applied <= 1)

\* C28 witness: the effects of an order of one product line were applied
\* twice, the stock is down by two, and the admin has set another order to
\* paid which no pay_order call has touched.
C28_Witness ==
  \E o, n \in DOMAIN orders :
    /\ PayLog(o).applied = 2
    /\ ~HasCourseLine(o)
    /\ Len(ItemsOf(o)) = 1
    /\ products[ItemsOf(o)[1].product_id].stock_quantity = MaxStock - 2
    /\ orders[n].status = "paid"
    /\ orders[n].payment_status = "pending"
    /\ n \notin DOMAIN paylog


\* C30 (as claimed): every order and every enrollment is of a user that
\* exists, and every enrollment for a course that exists.
C30_ReferentialIntegrity ==
  /\ \A o \in DOMAIN orders : orders[o].user_id \in DOMAIN users
  /\ \A e \in DOMAIN enrollments :
        /\ enrollments[e].user_id \in DOMAIN users
        /\ enrollments[e].course_id \in DOMAIN courses

=============================================================================
